---- MODULE Spec2Model ----
(***************************************************************************)
(* Changelog Generator & Editor (src/changelog.py): the entry store        *)
(* (load_changelog, save_changelog, add_entry, edit_entry, delete_entry)   *)
(* over the single backing document changelog.json.                        *)
(*                                                                         *)
(* A text is a sequence of one-character strings.  A timestamp is the      *)
(* sequence of the zero-padded numeric fields that isoformat() prints, so  *)
(* the lexicographic order of these sequences is the order Python gives    *)
(* the timestamp strings.                                                  *)
(***************************************************************************)
EXTENDS Integers, Sequences, FiniteSets, TLC

\* ------------------------------------------------------------------ bounds
\* Largest clock reading (in microseconds) the model lets the clock reach.
MaxClock == 2
\* Microseconds per second in the model's clock (the microsecond field of a
\* reading ranges over 0 .. UsecPerSec - 1).
UsecPerSec == 2
\* Largest number of entries a save may write.
MaxEntries == 3

\* Longest entry text handed to the report renderer.
MaxTextLen == 2

\* Largest number of entries written by a save that is taken step by step.
MaxSaved == MaxEntries - 1

\* ------------------------------------------------------------ input sets
Whitespace == {" ", "\n", "\t"}
\* Texts handed to Append: empty, blank, and a non-blank text with leading
\* whitespace.
AppendTexts == {<<>>, <<" ">>, <<" ", "b">>}
\* Texts handed to Update: empty, blank, and a plain text.
UpdateTexts == {<<>>, <<" ">>, <<"a">>}
\* Operation tags handed to Append and to Update.
AppendOps == {"Created", "Edited"}
UpdateOps == {"Edited"}
\* The processes that may hold the document open.
Procs == {1, 2}
\* The process of the single-user program.
Main == 1

VARIABLES
    doc,    \* the backing document changelog.json: [kind, entries]
    now,    \* the system clock, in microseconds
    hist,   \* clock readings taken by add_entry so far: [lastRead, repeated]
    last,   \* the last call that ended, with its arguments and outcome
    pc,     \* pc[p]: where process p stands inside save_changelog
    buf,    \* buf[p]: the entry list process p is saving
    call,   \* call[p]: the call process p is executing
    report, \* the exported report file: [written, blocks]
    shell   \* the state of ChangelogApp (form, list, selection, buttons)

vars == <<doc, now, hist, last, pc, buf, call, report, shell>>

\* ------------------------------------------------------------- documents
Absent == [kind |-> "absent", entries |-> <<>>]
\* A document that json.load rejects; entries holds what was written of it.
Malformed(written) == [kind |-> "malformed", entries |-> written]
\* A document that json.load accepts but that is not a list of records.
NotList == [kind |-> "notlist", entries |-> <<>>]
ListDoc(entries) == [kind |-> "list", entries |-> entries]

\* No report has been exported and no destination has been asked for.
NoReport == [asked |-> FALSE, written |-> FALSE, blocks |-> <<>>]

\* Python's None as the value of selected_entry_timestamp: no timestamp.
None == <<-1>>

\* OPERATIONS
OPERATIONS == <<"Created", "Edited", "Deleted">>

\* ChangelogApp after __init__ has built the widgets and refreshed the list
\* with these entries: nothing selected, the form empty, "Add Entry" mode.
ShellStart(entries) ==
    [entries |-> entries,
     selected_entry_timestamp |-> None,
     operation_var |-> OPERATIONS[1],
     text_input |-> <<>>,
     save_button |-> "Add Entry",
     delete_button |-> "disabled",
     clear_button |-> "disabled"]

\* ---------------------------------------------------------- pure helpers
\* str.strip(): drop leading and trailing whitespace.
RECURSIVE lstrip(_)
lstrip(text) ==
    IF text = <<>> THEN <<>>
    ELSE IF Head(text) \in Whitespace THEN lstrip(Tail(text))
    ELSE text

RECURSIVE rstrip(_)
rstrip(text) ==
    IF text = <<>> THEN <<>>
    ELSE IF text[Len(text)] \in Whitespace
         THEN rstrip(SubSeq(text, 1, Len(text) - 1))
    ELSE text

strip(text) == rstrip(lstrip(text))

\* isoformat(timespec="seconds"): the microsecond field is always dropped.
isoformat_seconds(clock) == <<clock \div UsecPerSec>>

\* datetime.isoformat(): the microsecond field is printed only when non-zero.
isoformat(clock) ==
    IF clock % UsecPerSec = 0
    THEN <<clock \div UsecPerSec>>
    ELSE <<clock \div UsecPerSec, clock % UsecPerSec>>

\* Python's str "<" on timestamps: lexicographic, a proper prefix is smaller.
RECURSIVE StrLess(_, _)
StrLess(a, b) ==
    IF b = <<>> THEN FALSE
    ELSE IF a = <<>> THEN TRUE
    ELSE IF Head(a) < Head(b) THEN TRUE
    ELSE IF Head(a) > Head(b) THEN FALSE
    ELSE StrLess(Tail(a), Tail(b))

\* One insertion of list.sort(key=timestamp, reverse=True): e goes behind
\* every element whose key is not smaller (the sort is stable).
RECURSIVE InsertDesc(_, _)
InsertDesc(sorted, e) ==
    IF sorted = <<>> THEN <<e>>
    ELSE IF StrLess(Head(sorted).timestamp, e.timestamp)
         THEN <<e>> \o sorted
    ELSE <<Head(sorted)>> \o InsertDesc(Tail(sorted), e)

RECURSIVE SortFrom(_, _)
SortFrom(sorted, rest) ==
    IF rest = <<>> THEN sorted
    ELSE SortFrom(InsertDesc(sorted, Head(rest)), Tail(rest))

SortDesc(entries) == SortFrom(<<>>, entries)

\* ------------------------------------------------------------ core logic
\* load_changelog without the sort: the list is returned in document order.
load_changelog_unsorted(d) ==
    IF d.kind = "absent" THEN [raised |-> FALSE, entries |-> <<>>]
    ELSE IF d.kind = "malformed" THEN [raised |-> FALSE, entries |-> <<>>]
    ELSE IF d.kind = "notlist" THEN [raised |-> TRUE, entries |-> <<>>]
    ELSE [raised |-> FALSE, entries |-> d.entries]

\* load_changelog keeping the records written before the damage.
load_changelog_salvage(d) ==
    IF d.kind = "absent" THEN [raised |-> FALSE, entries |-> <<>>]
    ELSE IF d.kind = "malformed"
         THEN [raised |-> FALSE, entries |-> SortDesc(d.entries)]
    ELSE IF d.kind = "notlist" THEN [raised |-> TRUE, entries |-> <<>>]
    ELSE [raised |-> FALSE, entries |-> SortDesc(d.entries)]

\* load_changelog(): [] when the file is missing or json.load raises
\* JSONDecodeError; any other document is sorted in place, which raises when
\* it is not a list of records.
load_changelog(d) ==
    IF d.kind = "absent" THEN [raised |-> FALSE, entries |-> <<>>]
    ELSE IF d.kind = "malformed" THEN [raised |-> FALSE, entries |-> <<>>]
    ELSE IF d.kind = "notlist" THEN [raised |-> TRUE, entries |-> <<>>]
    ELSE [raised |-> FALSE, entries |-> SortDesc(d.entries)]

\* save_changelog(): the document after a completed write.
save_changelog(entries) == ListDoc(entries)

\* What a core call decides before it saves:
\*   ret     "true" / "false" / "raised"
\*   write   whether save_changelog is called
\*   entries the list handed to save_changelog
\*   read    whether datetime.now() was read
Outcome(ret, write, entries, read) ==
    [ret |-> ret, write |-> write, entries |-> entries, read |-> read]

\* add_entry testing the text without strip().
add_entry_nostrip(d, clock, operation, text) ==
    IF text = <<>> THEN Outcome("false", FALSE, <<>>, FALSE)
    ELSE LET loaded == load_changelog(d) IN
         IF loaded.raised THEN Outcome("raised", FALSE, <<>>, FALSE)
         ELSE Outcome("true", TRUE,
                      Append(loaded.entries,
                             [timestamp |-> isoformat(clock),
                              operation |-> operation,
                              text |-> text]),
                      TRUE)

\* add_entry storing the stripped text.
add_entry_stripped(d, clock, operation, text) ==
    IF strip(text) = <<>> THEN Outcome("false", FALSE, <<>>, FALSE)
    ELSE LET loaded == load_changelog(d) IN
         IF loaded.raised THEN Outcome("raised", FALSE, <<>>, FALSE)
         ELSE Outcome("true", TRUE,
                      Append(loaded.entries,
                             [timestamp |-> isoformat(clock),
                              operation |-> operation,
                              text |-> strip(text)]),
                      TRUE)

\* add_entry(operation, text)
add_entry(d, clock, operation, text) ==
    IF strip(text) = <<>> THEN Outcome("false", FALSE, <<>>, FALSE)
    ELSE LET loaded == load_changelog(d) IN
         IF loaded.raised THEN Outcome("raised", FALSE, <<>>, FALSE)
         ELSE Outcome("true", TRUE,
                      Append(loaded.entries,
                             [timestamp |-> isoformat(clock),
                              operation |-> operation,
                              text |-> text]),
                      TRUE)

\* The loop of edit_entry without the break: every match is rewritten.
RECURSIVE EditLoopAll(_, _, _, _, _)
EditLoopAll(entries, i, timestamp, new_operation, new_text) ==
    IF i > Len(entries) THEN [found |-> FALSE, entries |-> entries]
    ELSE LET rest == EditLoopAll(entries, i + 1, timestamp,
                                 new_operation, new_text) IN
         IF entries[i].timestamp = timestamp
         THEN [found |-> TRUE,
               entries |-> [rest.entries EXCEPT
                               ![i].operation = new_operation,
                               ![i].text = new_text]]
         ELSE rest

\* The loop of edit_entry from index i: the first match is rewritten, then
\* the loop breaks.
RECURSIVE EditLoop(_, _, _, _, _)
EditLoop(entries, i, timestamp, new_operation, new_text) ==
    IF i > Len(entries) THEN [found |-> FALSE, entries |-> entries]
    ELSE IF entries[i].timestamp = timestamp
         THEN [found |-> TRUE,
               entries |-> [entries EXCEPT ![i].operation = new_operation,
                                           ![i].text = new_text]]
    ELSE EditLoop(entries, i + 1, timestamp, new_operation, new_text)

\* edit_entry(timestamp, new_operation, new_text)
edit_entry(d, timestamp, new_operation, new_text) ==
    IF strip(new_text) = <<>> THEN Outcome("false", FALSE, <<>>, FALSE)
    ELSE LET loaded == load_changelog(d) IN
         IF loaded.raised THEN Outcome("raised", FALSE, <<>>, FALSE)
         ELSE LET scan == EditLoop(loaded.entries, 1, timestamp,
                                   new_operation, new_text) IN
              IF scan.found THEN Outcome("true", TRUE, scan.entries, FALSE)
              ELSE Outcome("false", FALSE, <<>>, FALSE)

\* delete_entry dropping only the first match.
delete_entry_first(d, timestamp) ==
    LET loaded == load_changelog(d) IN
    IF loaded.raised THEN Outcome("raised", FALSE, <<>>, FALSE)
    ELSE LET entries == loaded.entries
             hits == {i \in 1..Len(entries) : entries[i].timestamp = timestamp}
         IN  IF hits = {} THEN Outcome("false", FALSE, <<>>, FALSE)
             ELSE LET k == CHOOSE i \in hits : \A j \in hits : i <= j IN
                  Outcome("true", TRUE,
                          SubSeq(entries, 1, k - 1)
                              \o SubSeq(entries, k + 1, Len(entries)),
                          FALSE)

\* delete_entry saving the filtered list even when nothing matched.
delete_entry_always_saves(d, timestamp) ==
    LET loaded == load_changelog(d) IN
    IF loaded.raised THEN Outcome("raised", FALSE, <<>>, FALSE)
    ELSE LET keep(entry) == entry.timestamp /= timestamp
             entries_to_keep == SelectSeq(loaded.entries, keep)
         IN  IF Len(loaded.entries) = Len(entries_to_keep)
             THEN Outcome("false", TRUE, entries_to_keep, FALSE)
             ELSE Outcome("true", TRUE, entries_to_keep, FALSE)

\* delete_entry(timestamp)
delete_entry(d, timestamp) ==
    LET loaded == load_changelog(d) IN
    IF loaded.raised THEN Outcome("raised", FALSE, <<>>, FALSE)
    ELSE LET keep(entry) == entry.timestamp /= timestamp
             entries_to_keep == SelectSeq(loaded.entries, keep)
         IN  IF Len(loaded.entries) = Len(entries_to_keep)
             THEN Outcome("false", FALSE, <<>>, FALSE)
             ELSE Outcome("true", TRUE, entries_to_keep, FALSE)

\* ------------------------------------------------------------ the record
\* of a call: its name, arguments, the document and clock it started from,
\* its return value, the list it returned (Load) and whether it wrote.
NoCall ==
    [op |-> "none", timestamp |-> <<>>, operation |-> "", text |-> <<>>,
     before |-> Absent, clock |-> 0, ret |-> "none", result |-> <<>>,
     wrote |-> FALSE, proc |-> 0]

CallRecord(p, op, timestamp, operation, text) ==
    [op |-> op, timestamp |-> timestamp, operation |-> operation,
     text |-> text, before |-> doc, clock |-> now, ret |-> "none",
     result |-> <<>>, wrote |-> FALSE, proc |-> p]

TsInputs == {isoformat(c) : c \in 0..MaxClock}

\* The clock readings taken so far, after a call with this outcome.
Reads(r) ==
    IF r.read
    THEN [lastRead |-> now, repeated |-> hist.repeated \/ hist.lastRead = now]
    ELSE hist

\* ------------------------------------------------- single-process actions
\* Each core function runs to completion, save included.
Finish(p, op, timestamp, operation, text, r) ==
    /\ r.write => Len(r.entries) <= MaxEntries
    /\ doc' = IF r.write THEN save_changelog(r.entries) ELSE doc
    /\ hist' = Reads(r)
    /\ last' = [CallRecord(p, op, timestamp, operation, text) EXCEPT
                   !.ret = r.ret, !.wrote = r.write]
    /\ UNCHANGED <<now, pc, buf, call, report, shell>>

\* load_changelog writing the sorted list back to the document.
LoadRewrites ==
    /\ pc[Main] = "idle"
    /\ LET loaded == load_changelog(doc) IN
       /\ last' = [CallRecord(Main, "Load", <<>>, "", <<>>) EXCEPT
                      !.ret = IF loaded.raised THEN "raised" ELSE "true",
                      !.result = loaded.entries]
       /\ doc' = IF doc.kind = "list" THEN save_changelog(loaded.entries)
                 ELSE doc
    /\ UNCHANGED <<now, hist, pc, buf, call, report, shell>>

Load ==
    /\ pc[Main] = "idle"
    /\ LET loaded == load_changelog(doc) IN
       last' = [CallRecord(Main, "Load", <<>>, "", <<>>) EXCEPT
                   !.ret = IF loaded.raised THEN "raised" ELSE "true",
                   !.result = loaded.entries]
    /\ UNCHANGED <<doc, now, hist, pc, buf, call, report, shell>>

AppendEntry ==
    /\ pc[Main] = "idle"
    /\ \E operation \in AppendOps, text \in AppendTexts :
          Finish(Main, "Append", <<>>, operation, text,
                 add_entry(doc, now, operation, text))

Update ==
    /\ pc[Main] = "idle"
    /\ \E timestamp \in TsInputs, operation \in UpdateOps, text \in UpdateTexts :
          Finish(Main, "Update", timestamp, operation, text,
                 edit_entry(doc, timestamp, operation, text))

Delete ==
    /\ pc[Main] = "idle"
    /\ \E timestamp \in TsInputs :
          Finish(Main, "Delete", timestamp, "", <<>>,
                 delete_entry(doc, timestamp))

\* The system clock advances.
Tick ==
    /\ now < MaxClock
    /\ now' = now + 1
    /\ UNCHANGED <<doc, hist, last, pc, buf, call, report, shell>>

Init ==
    /\ doc = Absent
    /\ now = 0
    /\ hist = [lastRead |-> -1, repeated |-> FALSE]
    /\ last = NoCall
    /\ pc = [p \in Procs |-> "idle"]
    /\ buf = [p \in Procs |-> <<>>]
    /\ call = [p \in Procs |-> NoCall]
    /\ report = NoReport
    /\ shell = ShellStart(<<>>)

Next == Load \/ AppendEntry \/ Update \/ Delete \/ Tick

Spec == Init /\ [][Next]_vars

\* ------------------------------------------------ the steps of a save
\* The same core functions with save_changelog taken one file operation at
\* a time, the document as another process (or the next run, after this one
\* stops) would find it.
Idle == \A p \in Procs : pc[p] = "idle"

\* The call of p returns without saving, or goes on to save_changelog.
Begin(p, op, timestamp, operation, text, r) ==
    /\ pc[p] = "idle"
    /\ r.write => Len(r.entries) <= MaxSaved
    /\ hist' = Reads(r)
    /\ IF r.write
       THEN /\ pc' = [pc EXCEPT ![p] = "save"]
            /\ buf' = [buf EXCEPT ![p] = r.entries]
            /\ call' = [call EXCEPT
                           ![p] = CallRecord(p, op, timestamp, operation, text)]
            /\ last' = NoCall
       ELSE /\ last' = [CallRecord(p, op, timestamp, operation, text) EXCEPT
                           !.ret = r.ret]
            /\ UNCHANGED <<pc, buf, call>>
    /\ UNCHANGED <<doc, now, report, shell>>

BeginLoad(p) ==
    /\ pc[p] = "idle"
    /\ LET loaded == load_changelog(doc) IN
       last' = [CallRecord(p, "Load", <<>>, "", <<>>) EXCEPT
                   !.ret = IF loaded.raised THEN "raised" ELSE "true",
                   !.result = loaded.entries]
    /\ UNCHANGED <<doc, now, hist, pc, buf, call, report, shell>>

BeginAppend(p) ==
    \E operation \in AppendOps, text \in AppendTexts :
        Begin(p, "Append", <<>>, operation, text,
              add_entry(doc, now, operation, text))

BeginUpdate(p) ==
    \E timestamp \in TsInputs, operation \in UpdateOps, text \in UpdateTexts :
        Begin(p, "Update", timestamp, operation, text,
              edit_entry(doc, timestamp, operation, text))

BeginDelete(p) ==
    \E timestamp \in TsInputs :
        Begin(p, "Delete", timestamp, "", <<>>, delete_entry(doc, timestamp))

\* open(CHANGELOG_FILE, 'w'): the file is created or truncated to nothing.
SaveOpen(p) ==
    /\ pc[p] = "save"
    /\ doc' = Malformed(<<>>)
    /\ pc' = [pc EXCEPT ![p] = "write"]
    /\ UNCHANGED <<now, hist, last, buf, call, report, shell>>

\* open(CHANGELOG_FILE, 'w') raises OSError (the file cannot be written);
\* nothing catches it.
SaveOpenFails(p) ==
    /\ pc[p] = "save"
    /\ last' = [call[p] EXCEPT !.ret = "raised"]
    /\ pc' = [pc EXCEPT ![p] = "idle"]
    /\ buf' = [buf EXCEPT ![p] = <<>>]
    /\ call' = [call EXCEPT ![p] = NoCall]
    /\ UNCHANGED <<doc, now, hist, report, shell>>

\* json.dump: the write buffer fills and one more record reaches the file.
SaveFlush(p) ==
    /\ pc[p] = "write"
    /\ doc.kind = "malformed"
    /\ Len(doc.entries) < Len(buf[p])
    /\ doc.entries = SubSeq(buf[p], 1, Len(doc.entries))
    /\ doc' = Malformed(SubSeq(buf[p], 1, Len(doc.entries) + 1))
    /\ UNCHANGED <<now, hist, last, pc, buf, call, report, shell>>

\* The characters json.dump writes for a text.
RECURSIVE JsonLen(_)
JsonLen(text) ==
    IF text = <<>> THEN 0
    ELSE (IF Head(text) \in {"\n", "\t", "\"", "\\"} THEN 2 ELSE 1)
             + JsonLen(Tail(text))

\* The characters isoformat() prints: 19, and 7 more with microseconds.
IsoLen(timestamp) == IF Len(timestamp) = 1 THEN 19 ELSE 26

OpLen(operation) ==
    CASE operation = "Created" -> 7
      [] operation = "Edited" -> 6
      [] operation = "Deleted" -> 7
      [] OTHER -> 0

\* The size of json.dump(entries, f, indent=4, ensure_ascii=False).
RECURSIVE Bytes(_)
Bytes(entries) ==
    IF entries = <<>> THEN 2
    ELSE 82 + IsoLen(Head(entries).timestamp) + OpLen(Head(entries).operation)
            + JsonLen(Head(entries).text) + Bytes(Tail(entries))

\* The file after entries are written from offset 0 and the file is closed:
\* the write replaces the first bytes of what the file holds, so the tail
\* of a longer document another process wrote since the open stays behind
\* the new text, and the result does not parse.
Overwritten(d, entries) ==
    IF d.kind = "list" /\ Bytes(d.entries) > Bytes(entries)
    THEN Malformed(entries)
    ELSE save_changelog(entries)

\* The with block ends: the rest is written, the file is closed and the
\* core function returns True.
SaveClose(p) ==
    /\ pc[p] = "write"
    /\ doc' = Overwritten(doc, buf[p])
    /\ last' = [call[p] EXCEPT !.ret = "true", !.wrote = TRUE]
    /\ pc' = [pc EXCEPT ![p] = "idle"]
    /\ buf' = [buf EXCEPT ![p] = <<>>]
    /\ call' = [call EXCEPT ![p] = NoCall]
    /\ UNCHANGED <<now, hist, report, shell>>

\* The process stops inside save_changelog; result keeps what it was saving.
Stop(p) ==
    /\ pc[p] \in {"save", "write"}
    /\ last' = [call[p] EXCEPT !.ret = "stopped", !.result = buf[p]]
    /\ pc' = [pc EXCEPT ![p] = "idle"]
    /\ buf' = [buf EXCEPT ![p] = <<>>]
    /\ call' = [call EXCEPT ![p] = NoCall]
    /\ UNCHANGED <<doc, now, hist, report, shell>>

\* Documents the program may find at start: none, one that does not parse,
\* one that parses to something else than a list of records, and lists of
\* records in any order.
InitEntries ==
    {[timestamp |-> t, operation |-> "Created", text |-> <<"a">>] :
        t \in TsInputs}

InitDocs ==
    {Absent, Malformed(<<>>), NotList}
        \cup {ListDoc(<<>>)}
        \cup {ListDoc(<<e>>) : e \in InitEntries}
        \cup {ListDoc(<<e, f>>) : e \in InitEntries, f \in InitEntries}

InitIO ==
    /\ doc \in InitDocs
    /\ now \in 0..MaxClock
    /\ \A i \in 1..Len(doc.entries) :
          ~StrLess(isoformat(now), doc.entries[i].timestamp)
    /\ hist = [lastRead |-> -1, repeated |-> FALSE]
    /\ last = NoCall
    /\ pc = [p \in Procs |-> "idle"]
    /\ buf = [p \in Procs |-> <<>>]
    /\ call = [p \in Procs |-> NoCall]
    /\ report = NoReport
    /\ shell = ShellStart(<<>>)

NextIO ==
    \/ BeginLoad(Main)
    \/ BeginAppend(Main)
    \/ BeginUpdate(Main)
    \/ BeginDelete(Main)
    \/ SaveOpen(Main)
    \/ SaveOpenFails(Main)
    \/ SaveFlush(Main)
    \/ SaveClose(Main)
    \/ Stop(Main)
    \/ Tick

SpecIO == InitIO /\ [][NextIO]_vars

\* --------------------------------------------------------- two processes
\* Two runs of the program append to one document; each holds its own list
\* between its load and its save, and small documents reach the file when
\* it is closed.
NextConc ==
    \/ \E p \in Procs : BeginAppend(p)
    \/ \E p \in Procs : SaveOpen(p)
    \/ \E p \in Procs : SaveClose(p)
    \/ Tick

SpecConc == Init /\ [][NextConc]_vars

\* ------------------------------------------------------ report renderer
\* str.replace(old, new) for a one-character old.
RECURSIVE replace(_, _, _)
replace(text, old, new) ==
    IF text = <<>> THEN <<>>
    ELSE IF Head(text) = old THEN new \o replace(Tail(text), old, new)
    ELSE <<Head(text)>> \o replace(Tail(text), old, new)

\* html.escape(s, quote=False): the quotes are left as they are.
html_escape_noquote(text) ==
    LET s1 == replace(text, "&", <<"&", "a", "m", "p", ";">>)
        s2 == replace(s1, "<", <<"&", "l", "t", ";">>)
    IN  replace(s2, ">", <<"&", "g", "t", ";">>)

\* html.escape(s): & first, then < and >, then the two quotes.
html_escape(text) ==
    LET s1 == replace(text, "&", <<"&", "a", "m", "p", ";">>)
        s2 == replace(s1, "<", <<"&", "l", "t", ";">>)
        s3 == replace(s2, ">", <<"&", "g", "t", ";">>)
        s4 == replace(s3, "\"", <<"&", "q", "u", "o", "t", ";">>)
    IN  replace(s4, "'", <<"&", "#", "x", "2", "7", ";">>)

\* str.lower() on the operation tags.
lower(operation) ==
    CASE operation = "Created" -> "created"
      [] operation = "Edited" -> "edited"
      [] operation = "Deleted" -> "deleted"
      [] OTHER -> operation

\* datetime.fromisoformat(): the fields of the stored timestamp.
fromisoformat(timestamp) ==
    [second |-> timestamp[1],
     microsecond |-> IF Len(timestamp) > 1 THEN timestamp[2] ELSE 0]

\* strftime('%Y-%m-%d %H:%M:%S'): the date-time to the second.
strftime(datetime) == <<datetime.second>>

\* The block html_content gets for one entry.
Block(entry) ==
    [op_class |-> lower(entry.operation),
     tag |-> entry.operation,
     text |-> html_escape(entry.text),
     date |-> strftime(fromisoformat(entry.timestamp))]

\* html_content: one block per entry, in the order received.
html_content(entries) == [i \in 1..Len(entries) |-> Block(entries[i])]

\* What generate_html_file does:
\*   ret    "raised" / "nothing" / "cancelled" / "written" / "write_failed"
\*   asked  whether the save-as dialog was opened
\*   write  whether the destination file was written
\*   blocks the html_content built
Rendering(ret, asked, write, blocks) ==
    [ret |-> ret, asked |-> asked, write |-> write, blocks |-> blocks]

\* generate_html_file without the test for an empty changelog.
generate_html_file_noguard(d, filepath, writable) ==
    LET loaded == load_changelog(d) IN
    IF loaded.raised THEN Rendering("raised", FALSE, FALSE, <<>>)
    ELSE LET blocks == html_content(loaded.entries) IN
         IF filepath = "" THEN Rendering("cancelled", TRUE, FALSE, blocks)
         ELSE IF writable THEN Rendering("written", TRUE, TRUE, blocks)
         ELSE Rendering("write_failed", TRUE, FALSE, blocks)

\* generate_html_file(), with the path the dialog returns ("" when it is
\* cancelled) and whether the destination can be written.
generate_html_file(d, filepath, writable) ==
    LET loaded == load_changelog(d) IN
    IF loaded.raised THEN Rendering("raised", FALSE, FALSE, <<>>)
    ELSE IF loaded.entries = <<>>
         THEN Rendering("nothing", FALSE, FALSE, <<>>)
    ELSE LET blocks == html_content(loaded.entries) IN
         IF filepath = "" THEN Rendering("cancelled", TRUE, FALSE, blocks)
         ELSE IF writable THEN Rendering("written", TRUE, TRUE, blocks)
         ELSE Rendering("write_failed", TRUE, FALSE, blocks)

\* The report button: generate_html_file runs to completion.
Render ==
    /\ pc[Main] = "idle"
    /\ \E filepath \in {"", "changelog.html"}, writable \in BOOLEAN :
          LET r == generate_html_file(doc, filepath, writable) IN
          /\ last' = [CallRecord(Main, "Render", <<>>, "", <<>>) EXCEPT
                         !.ret = r.ret, !.result = r.blocks,
                         !.wrote = r.write]
          /\ report' = [asked |-> r.asked,
                        written |-> report.written \/ r.write,
                        blocks |-> IF r.write THEN r.blocks
                                   ELSE report.blocks]
    /\ UNCHANGED <<doc, now, hist, pc, buf, call, shell>>

\* The characters html.escape replaces, and a plain one.
MarkupChars == {"<", ">", "&", "\"", "'"}
RenderAlphabet == MarkupChars \cup {"a"}

RECURSIVE TextsOfLen(_)
TextsOfLen(n) ==
    IF n = 0 THEN {<<>>}
    ELSE {<<c>> \o t : c \in RenderAlphabet, t \in TextsOfLen(n - 1)}

RenderTexts == UNION {TextsOfLen(n) : n \in 1..MaxTextLen}

RenderEntries ==
    {[timestamp |-> t, operation |-> OPERATIONS[o], text |-> x] :
        t \in TsInputs, o \in 1..Len(OPERATIONS), x \in RenderTexts}

PlainEntry ==
    [timestamp |-> isoformat(0), operation |-> "Created", text |-> <<"a">>]

\* Documents handed to the renderer: the empty ones, one that raises, and
\* lists of one or two entries.
RenderDocs ==
    {Absent, Malformed(<<>>), NotList, ListDoc(<<>>)}
        \cup {ListDoc(<<e>>) : e \in RenderEntries}
        \cup {ListDoc(<<PlainEntry, e>>) : e \in RenderEntries}

InitRender ==
    /\ doc \in RenderDocs
    /\ now = MaxClock
    /\ hist = [lastRead |-> -1, repeated |-> FALSE]
    /\ last = NoCall
    /\ pc = [p \in Procs |-> "idle"]
    /\ buf = [p \in Procs |-> <<>>]
    /\ call = [p \in Procs |-> NoCall]
    /\ report = NoReport
    /\ shell = ShellStart(<<>>)

NextRender == Render \/ Delete

SpecRender == InitRender /\ [][NextRender]_vars

\* The list load_changelog returns.
Loaded(d) == load_changelog(d).entries

\* --------------------------------------------------- presentation shell
\* Texts typed into the form: a blank one and one with leading whitespace.
FormTexts == {<<" ">>, <<" ", "b">>}
\* Operation tags picked in the option menu.
FormOps == {"Edited"}

\* refresh_changelog_list(): self.entries becomes the loaded list.
refresh_changelog_list(s, d) == [s EXCEPT !.entries = Loaded(d)]

\* on_entry_select leaving the delete button as it is.
on_entry_select_no_delete(s, selection_indices) ==
    IF selection_indices = <<>> THEN s
    ELSE LET selected_index == selection_indices[1]
             selected_entry == s.entries[selected_index]
         IN  [s EXCEPT !.selected_entry_timestamp = selected_entry.timestamp,
                       !.operation_var = selected_entry.operation,
                       !.text_input = selected_entry.text,
                       !.save_button = "Save Changes",
                       !.clear_button = "normal"]

\* on_entry_select(event), with what curselection() returns.
on_entry_select(s, selection_indices) ==
    IF selection_indices = <<>> THEN s
    ELSE LET selected_index == selection_indices[1]
             selected_entry == s.entries[selected_index]
         IN  [s EXCEPT !.selected_entry_timestamp = selected_entry.timestamp,
                       !.operation_var = selected_entry.operation,
                       !.text_input = selected_entry.text,
                       !.save_button = "Save Changes",
                       !.delete_button = "normal",
                       !.clear_button = "normal"]

\* clear_selection()
clear_selection(s) ==
    [s EXCEPT !.selected_entry_timestamp = None,
              !.operation_var = OPERATIONS[1],
              !.text_input = <<>>,
              !.save_button = "Add Entry",
              !.delete_button = "disabled",
              !.clear_button = "disabled"]

\* What a callback did: the core call it made (op "none" when it made
\* none), that call's outcome, the document and the shell it leaves.
Handled(op, timestamp, operation, text, r, d, s) ==
    [op |-> op, timestamp |-> timestamp, operation |-> operation,
     text |-> text, r |-> r, doc |-> d, shell |-> s]

\* The document after a core call with outcome r.
Saved(d, r) == IF r.write THEN save_changelog(r.entries) ELSE d

\* save_entry_callback()
save_entry_callback(s, d, clock) ==
    LET operation == s.operation_var
        text == strip(s.text_input)
    IN  IF s.selected_entry_timestamp /= None
        THEN LET r == edit_entry(d, s.selected_entry_timestamp,
                                 operation, text) IN
             Handled("Update", s.selected_entry_timestamp, operation, text,
                     r, Saved(d, r),
                     IF r.ret = "true"
                     THEN clear_selection(
                              refresh_changelog_list(s, Saved(d, r)))
                     ELSE s)
        ELSE LET r == add_entry(d, clock, operation, text) IN
             Handled("Append", <<>>, operation, text, r, Saved(d, r),
                     IF r.ret = "true"
                     THEN clear_selection(
                              refresh_changelog_list(s, Saved(d, r)))
                     ELSE s)

\* delete_entry_callback refreshing the list but keeping the selection.
delete_entry_callback_keeps_selection(s, d, confirm) ==
    IF s.selected_entry_timestamp = None \/ ~confirm
    THEN Handled("none", <<>>, "", <<>>,
                 Outcome("none", FALSE, <<>>, FALSE), d, s)
    ELSE LET r == delete_entry(d, s.selected_entry_timestamp) IN
         Handled("Delete", s.selected_entry_timestamp, "", <<>>, r,
                 Saved(d, r),
                 IF r.ret = "true"
                 THEN refresh_changelog_list(s, Saved(d, r))
                 ELSE s)

\* delete_entry_callback(), with the answer to the askyesno prompt.
delete_entry_callback(s, d, confirm) ==
    IF s.selected_entry_timestamp = None \/ ~confirm
    THEN Handled("none", <<>>, "", <<>>,
                 Outcome("none", FALSE, <<>>, FALSE), d, s)
    ELSE LET r == delete_entry(d, s.selected_entry_timestamp) IN
         Handled("Delete", s.selected_entry_timestamp, "", <<>>, r,
                 Saved(d, r),
                 IF r.ret = "true"
                 THEN clear_selection(
                          refresh_changelog_list(s, Saved(d, r)))
                 ELSE s)

\* A shell event that calls no core function.
ShellEvent(s) ==
    /\ pc[Main] = "idle"
    /\ shell' = s
    /\ last' = NoCall
    /\ UNCHANGED <<doc, now, hist, pc, buf, call, report>>

\* A callback runs to completion, the core call it makes included.
ShellCall(h) ==
    /\ pc[Main] = "idle"
    /\ h.r.write => Len(h.r.entries) <= MaxSaved
    /\ doc' = h.doc
    /\ hist' = Reads(h.r)
    /\ shell' = h.shell
    /\ last' = IF h.op = "none" THEN NoCall
               ELSE [CallRecord(Main, h.op, h.timestamp, h.operation,
                                h.text) EXCEPT
                        !.ret = h.r.ret, !.wrote = h.r.write]
    /\ UNCHANGED <<now, pc, buf, call, report>>

\* The user clicks a row of the list, or the list loses its selection.
Select ==
    \E selection_indices \in
           {<<>>} \cup {<<i>> : i \in 1..Len(shell.entries)} :
        ShellEvent(on_entry_select(shell, selection_indices))

\* The "New / Clear" button, which takes clicks when it is enabled.
Clear ==
    /\ shell.clear_button = "normal"
    /\ ShellEvent(clear_selection(shell))

\* The user types into the text widget.
Type ==
    \E text \in FormTexts :
        ShellEvent([shell EXCEPT !.text_input = text])

\* The user picks a tag in the option menu.
Choose ==
    \E operation \in FormOps :
        ShellEvent([shell EXCEPT !.operation_var = operation])

\* The save button.
Save == ShellCall(save_entry_callback(shell, doc, now))

\* The "Delete Selected" button, which takes clicks when it is enabled.
DeleteSelected ==
    /\ shell.delete_button = "normal"
    /\ \E confirm \in BOOLEAN :
          ShellCall(delete_entry_callback(shell, doc, confirm))

\* ChangelogApp() on a machine without changelog.json, one tick before
\* the clock's last value.
InitShell ==
    /\ doc = Absent
    /\ now = MaxClock - 1
    /\ hist = [lastRead |-> -1, repeated |-> FALSE]
    /\ last = NoCall
    /\ pc = [p \in Procs |-> "idle"]
    /\ buf = [p \in Procs |-> <<>>]
    /\ call = [p \in Procs |-> NoCall]
    /\ report = NoReport
    /\ shell = refresh_changelog_list(ShellStart(<<>>), doc)

NextShell ==
    \/ Select
    \/ Clear
    \/ Type
    \/ Choose
    \/ Save
    \/ DeleteSelected
    \/ Render
    \/ Tick

SpecShell == InitShell /\ [][NextShell]_vars

\* ================================================================ claims
HasTs(entries, t) == \E i \in 1..Len(entries) : entries[i].timestamp = t

NonBlank(text) == \E i \in 1..Len(text) : text[i] \notin Whitespace

Positions(entries, t) == {i \in 1..Len(entries) : entries[i].timestamp = t}

RemoveAt(entries, k) ==
    SubSeq(entries, 1, k - 1) \o SubSeq(entries, k + 1, Len(entries))

RECURSIVE RemoveAll(_, _)
RemoveAll(entries, t) ==
    IF entries = <<>> THEN <<>>
    ELSE IF Head(entries).timestamp = t THEN RemoveAll(Tail(entries), t)
    ELSE <<Head(entries)>> \o RemoveAll(Tail(entries), t)

NoDuplicateTimestamps(entries) ==
    \A i, j \in 1..Len(entries) :
        entries[i].timestamp = entries[j].timestamp => i = j

\* t1 > t2 puts the entry with t1 before the entry with t2.
NewestFirst(entries) ==
    \A i, j \in 1..Len(entries) :
        StrLess(entries[j].timestamp, entries[i].timestamp) => i < j

\* ---- C1
UpdateCase ==
    /\ last.op = "Update"
    /\ NonBlank(last.text)
    /\ HasTs(Loaded(last.before), last.timestamp)

\* C1: an Update of a present timestamp T with non-blank text returns true,
\* and Load afterwards is Load before with exactly the first entry of
\* timestamp T carrying the new operation and text; its timestamp and every
\* other entry, count and order are as before.
C1_UpdateFirstMatch ==
    UpdateCase =>
        LET before == Loaded(last.before)
            after == Loaded(doc)
            hits == Positions(before, last.timestamp)
            first == CHOOSE i \in hits : \A j \in hits : i <= j
        IN  /\ last.ret = "true"
            /\ Len(after) = Len(before)
            /\ \A i \in 1..Len(before) :
                  IF i = first
                  THEN after[i] = [timestamp |-> before[i].timestamp,
                                   operation |-> last.operation,
                                   text |-> last.text]
                  ELSE after[i] = before[i]

\* An Update that changed one of two entries sharing its timestamp, in a
\* store of three.
C1_Witness ==
    /\ UpdateCase
    /\ Len(Loaded(doc)) = 3
    /\ Cardinality(Positions(Loaded(last.before), last.timestamp)) = 2
    /\ Loaded(doc) /= Loaded(last.before)

\* ---- C2
\* C2: Delete of a present timestamp T returns true and Load afterwards is
\* Load before without the entries of timestamp T, the others unchanged and
\* in order; the filtered list is saved exactly when it is shorter.
C2_DeleteRemovesMatches ==
    last.op = "Delete" =>
        LET before == Loaded(last.before)
            kept == RemoveAll(before, last.timestamp)
        IN  /\ last.wrote <=> Len(kept) < Len(before)
            /\ HasTs(before, last.timestamp) =>
                  /\ last.ret = "true"
                  /\ Loaded(doc) = kept

\* The middle one of three entries was deleted and the other two are left.
C2_Witness ==
    /\ last.op = "Delete"
    /\ Len(Loaded(last.before)) = 3
    /\ Positions(Loaded(last.before), last.timestamp) = {2}
    /\ Len(Loaded(doc)) = 2

\* ---- C3
\* C3: Append with non-blank text returns true, and Load afterwards holds
\* the entries of Load before, unchanged, plus one new entry with the given
\* operation, the text exactly as given and the clock reading of the call
\* as timestamp.
C3_AppendAddsOne ==
    (last.op = "Append" /\ NonBlank(last.text)) =>
        LET before == Loaded(last.before)
            after == Loaded(doc)
            new == [timestamp |-> isoformat(last.clock),
                    operation |-> last.operation,
                    text |-> last.text]
        IN  /\ last.ret = "true"
            /\ Len(after) = Len(before) + 1
            /\ \E k \in 1..Len(after) :
                  /\ after[k] = new
                  /\ RemoveAt(after, k) = before

\* A text with leading whitespace was appended to a store of two entries.
C3_Witness ==
    /\ last.op = "Append"
    /\ NonBlank(last.text)
    /\ strip(last.text) /= last.text
    /\ Len(Loaded(last.before)) = 2
    /\ Len(Loaded(doc)) = 3

\* ---- C4
NotFoundCase ==
    /\ last.op \in {"Update", "Delete"}
    /\ last.op = "Update" => NonBlank(last.text)
    /\ ~HasTs(Loaded(last.before), last.timestamp)

\* C4: Update (non-blank text) and Delete of a timestamp no entry has return
\* false and write nothing: the document is the one before the call.
C4_NotFoundNoWrite ==
    NotFoundCase =>
        /\ last.ret = "false"
        /\ ~last.wrote
        /\ doc = last.before

\* A Delete that found nothing in a store of three entries whose document
\* is not in sorted order.
C4_Witness ==
    /\ NotFoundCase
    /\ last.op = "Delete"
    /\ Len(last.before.entries) = 3
    /\ last.before.entries /= Loaded(last.before)

\* ---- C5
BlankCase ==
    /\ last.op \in {"Append", "Update"}
    /\ ~NonBlank(last.text)

\* C5: Append and Update with an empty or whitespace-only text return false
\* and leave the document as it was, in every state of the document and
\* whether or not the timestamp of the Update exists.
C5_BlankRejected ==
    BlankCase =>
        /\ last.ret = "false"
        /\ ~last.wrote
        /\ doc = last.before

\* An Update with a whitespace-only text of a timestamp the store holds.
C5_Witness ==
    /\ BlankCase
    /\ last.op = "Update"
    /\ last.text /= <<>>
    /\ HasTs(Loaded(last.before), last.timestamp)

\* ---- C6
\* C6: every Load result is newest first: of two entries with distinct
\* timestamps the one with the greater timestamp comes first, whatever the
\* order of the entries in the document.
C6_LoadNewestFirst ==
    /\ NewestFirst(Loaded(doc))
    /\ last.op = "Load" => NewestFirst(last.result)

\* A Load of a document whose two entries sit oldest first.
C6_Witness ==
    /\ last.op = "Load"
    /\ last.before = doc
    /\ doc.kind = "list"
    /\ Len(doc.entries) = 2
    /\ StrLess(doc.entries[1].timestamp, doc.entries[2].timestamp)
    /\ last.result = <<doc.entries[2], doc.entries[1]>>

\* ---- C7
\* C7 as claimed: with non-decreasing clock readings no two entries of a
\* store reached from the empty store share a timestamp.
C7_UniqueTimestamps == NoDuplicateTimestamps(doc.entries)

\* C7 amended: when the clock readings taken by the Appends are strictly
\* increasing, no two entries of a store reached from the empty store share
\* a timestamp.
C7_UniqueWhenClockStrict ==
    ~hist.repeated => NoDuplicateTimestamps(doc.entries)

\* Three entries appended at three different clock readings.
C7_Witness ==
    /\ ~hist.repeated
    /\ doc.kind = "list"
    /\ Len(doc.entries) = 3

\* ---- C8
\* C8 as claimed: at every point of a save, and after the process stopped
\* in one, the document is the complete prior one or the complete new one.
C8_AtomicReplace ==
    /\ \A p \in Procs :
          pc[p] /= "idle" =>
              doc \in {call[p].before, save_changelog(buf[p])}
    /\ last.ret = "stopped" =>
          doc \in {last.before, save_changelog(last.result)}

\* ---- C9
LoadFailSoftCase ==
    /\ last.op = "Load"
    /\ last.before.kind \in {"absent", "malformed"}

C10_NoUnhandledError == last.ret /= "raised"

\* ---- C11
NewEntry ==
    [timestamp |-> isoformat(last.clock), operation |-> last.operation,
     text |-> last.text]

\* The store of the scenario: one "Created" and one "Edited" entry, and the
\* timestamp of the "Created" one handed to Delete.
ScenarioDelete ==
    /\ last.op = "Delete"
    /\ Len(Loaded(last.before)) = 2
    /\ \E i, j \in 1..2 :
          /\ i /= j
          /\ Loaded(last.before)[i].operation = "Created"
          /\ Loaded(last.before)[j].operation = "Edited"
          /\ last.timestamp = Loaded(last.before)[i].timestamp

LaterAppendFirst ==
    /\ (last.op = "Append" /\ last.ret = "true") =>
          Loaded(doc) = <<NewEntry>> \o Loaded(last.before)
    /\ ScenarioDelete =>
          /\ Len(Loaded(doc)) = 1
          /\ Loaded(doc)[1].operation = "Edited"

\* C11 as claimed: an appended entry comes first in Load, before every
\* entry appended earlier (two Appends give 2 entries, the later first), and
\* deleting the "Created" entry of the scenario leaves exactly the "Edited"
\* one.
C11_LaterAppendFirst == LaterAppendFirst

\* C11 amended: the same, when the clock readings taken by the Appends are
\* strictly increasing.
C11_LaterAppendFirstWhenClockStrict == ~hist.repeated => LaterAppendFirst

\* The scenario's end: "Created" then "Edited" were appended at increasing
\* readings, Load had the "Edited" one first, and the Delete of the
\* "Created" one left exactly the "Edited" one.
C11_Witness ==
    /\ ~hist.repeated
    /\ ScenarioDelete
    /\ Loaded(last.before)[1].operation = "Edited"
    /\ StrLess(Loaded(last.before)[2].timestamp,
               Loaded(last.before)[1].timestamp)
    /\ Loaded(doc) = <<Loaded(last.before)[1]>>

\* ---- C12
\* C12: every entry of the document has a text that is non-empty after
\* trimming, whatever calls, failing ones included, were made.
C12_PersistedTextNonBlank ==
    \A i \in 1..Len(doc.entries) : NonBlank(doc.entries[i].text)

\* A blank text was just refused on a store of three entries.
C12_Witness ==
    /\ BlankCase
    /\ last.ret = "false"
    /\ last.text /= <<>>
    /\ doc.kind = "list"
    /\ Len(doc.entries) = 3

\* ---- C13
\* C13: once a Load has returned, and until the next mutation, the document
\* is the one the Load found and another Load returns the same ordered
\* sequence, entries with equal timestamps included.
C13_LoadIdempotentReadOnly ==
    last.op = "Load" =>
        /\ doc = last.before
        /\ Loaded(doc) = last.result

\* A Load of three entries, two with one timestamp, from a document that is
\* not in sorted order.
C13_Witness ==
    /\ last.op = "Load"
    /\ Len(last.result) = 3
    /\ ~NoDuplicateTimestamps(last.result)
    /\ doc.entries /= last.result

\* ---- C14
EmptyRenderCase ==
    /\ last.op = "Render"
    /\ last.before.kind /= "notlist"
    /\ Loaded(last.before) = <<>>

\* C14: Render of an empty entry sequence (document absent, unparsable or
\* an empty list) signals "nothing to export" before any destination is
\* asked for, writes no destination file and leaves the document unchanged.
C14_EmptyRenderNothing ==
    EmptyRenderCase =>
        /\ last.ret = "nothing"
        /\ ~report.asked
        /\ ~last.wrote
        /\ last.result = <<>>
        /\ doc = last.before

\* Render of a list emptied by a Delete, after a report had been written.
C14_Witness ==
    /\ EmptyRenderCase
    /\ doc = ListDoc(<<>>)
    /\ report.written

\* ---- C15
Escapes ==
    {<<"&", "a", "m", "p", ";">>, <<"&", "l", "t", ";">>,
     <<"&", "g", "t", ";">>, <<"&", "q", "u", "o", "t", ";">>,
     <<"&", "#", "x", "2", "7", ";">>}

StartsWith(s, prefix) ==
    /\ Len(s) >= Len(prefix)
    /\ SubSeq(s, 1, Len(prefix)) = prefix

\* No markup character stands in s but the & that opens an escape sequence.
RECURSIVE NoRawMarkup(_)
NoRawMarkup(s) ==
    IF s = <<>> THEN TRUE
    ELSE IF Head(s) = "&"
         THEN \E e \in Escapes :
                 /\ StartsWith(s, e)
                 /\ NoRawMarkup(SubSeq(s, Len(e) + 1, Len(s)))
    ELSE /\ Head(s) \notin MarkupChars
         /\ NoRawMarkup(Tail(s))

\* The character an escape sequence stands for.
Unescaped(e) ==
    CASE e = <<"&", "a", "m", "p", ";">> -> "&"
      [] e = <<"&", "l", "t", ";">> -> "<"
      [] e = <<"&", "g", "t", ";">> -> ">"
      [] e = <<"&", "q", "u", "o", "t", ";">> -> "\""
      [] OTHER -> "'"

\* What a viewer shows for s: every escape sequence read back.
RECURSIVE Shown(_)
Shown(s) ==
    IF s = <<>> THEN <<>>
    ELSE IF \E e \in Escapes : StartsWith(s, e)
         THEN LET e == CHOOSE x \in Escapes : StartsWith(s, x) IN
              <<Unescaped(e)>> \o Shown(SubSeq(s, Len(e) + 1, Len(s)))
    ELSE <<Head(s)>> \o Shown(Tail(s))

RenderedCase ==
    /\ last.op = "Render"
    /\ last.ret \in {"written", "cancelled", "write_failed"}

\* C15: in the block rendered for an entry, the text holds no markup
\* character of its own: each is replaced by its escape sequence, and the
\* text reads back as the entry text; blocks follow the order of Load.
C15_TextEscaped ==
    RenderedCase =>
        LET entries == Loaded(last.before) IN
        /\ Len(last.result) = Len(entries)
        /\ \A i \in 1..Len(entries) :
              /\ NoRawMarkup(last.result[i].text)
              /\ Shown(last.result[i].text) = entries[i].text
        /\ last.ret = "written" => report.blocks = last.result

\* A written report of an entry whose text is a quote followed by "<".
C15_Witness ==
    /\ RenderedCase
    /\ last.ret = "written"
    /\ \E i \in 1..Len(last.result) :
          /\ Loaded(last.before)[i].text = <<"\"", "<">>
          /\ last.result[i].text =
                <<"&", "q", "u", "o", "t", ";", "&", "l", "t", ";">>

\* ---- C16
\* The list the last Append to return had handed to save_changelog.
LastSaved == Append(Loaded(last.before), NewEntry)

\* C16 as claimed: after any interleaving of the loads and saves of two
\* processes, the document is exactly what the last process to save wrote.
C16_LastWriterWins ==
    (Idle /\ last.op = "Append" /\ last.ret = "true") =>
        doc = save_changelog(LastSaved)

\* A lost update: two Appends read the same clock and both returned, and
\* the document holds one entry.
C16_LostUpdate ==
    /\ Idle
    /\ hist.repeated
    /\ hist.lastRead = 0
    /\ doc.kind = "list"
    /\ Len(doc.entries) = 1

\* ---- C17
\* A call on a document that does not parse, not cut short by a write that
\* the file system refused or by the process stopping.
UnparsableCase ==
    /\ last.before.kind = "malformed"
    /\ last.ret \notin {"raised", "stopped"}

C18_SelectionInStore ==
    /\ shell.selected_entry_timestamp /= None =>
           HasTs(Loaded(doc), shell.selected_entry_timestamp)
    /\ shell.entries = Loaded(doc)
    /\ (last.op = "Update" /\ NonBlank(last.text)) => last.ret = "true"
    /\ last.op = "Delete" => last.ret = "true"
    /\ (last.op \in {"Append", "Update", "Delete"} /\ last.ret = "true") =>
           shell.selected_entry_timestamp = None

\* The selected entry, one of two, has just been deleted: the other one is
\* listed and nothing is selected.
C18_Witness ==
    /\ last.op = "Delete"
    /\ last.ret = "true"
    /\ Len(Loaded(last.before)) = 2
    /\ Len(shell.entries) = 1
    /\ shell.selected_entry_timestamp = None

\* ---- C19
Selected == shell.selected_entry_timestamp /= None

Indicators ==
    <<shell.save_button, shell.delete_button, shell.clear_button>>

IndicatorsAgree ==
    IF Selected
    THEN Indicators = <<"Save Changes", "normal", "normal">>
    ELSE Indicators = <<"Add Entry", "disabled", "disabled">>

\* A step of the save button: it calls Update exactly when an entry is
\* selected and Append otherwise, and when the call returns false the
\* selection and the indicators stay as they were.
SaveStep ==
    Save =>
        /\ (last'.op = "Update") <=> Selected
        /\ (last'.op = "Append") <=> ~Selected
        /\ last'.op = "Update" =>
               last'.timestamp = shell.selected_entry_timestamp
        /\ last'.ret = "false" =>
               /\ shell'.selected_entry_timestamp =
                      shell.selected_entry_timestamp
               /\ Indicators' = Indicators

\* C19: in every reachable shell state the Delete and Clear buttons are
\* enabled and the save button reads "Save Changes" exactly when a
\* timestamp is selected, else both are disabled and it reads "Add Entry";
\* a save goes to Update exactly when an entry is selected, to Append
\* otherwise, and a save that fails on blank text changes neither the
\* selection nor the indicators.
C19_IndicatorsFollowSelection == []IndicatorsAgree /\ [][SaveStep]_vars

\* A save with blank text in edit mode has just failed: the entry is still
\* selected and the buttons still show edit mode.
C19_Witness ==
    /\ last.op = "Update"
    /\ last.ret = "false"
    /\ ~NonBlank(last.text)
    /\ Selected
    /\ Indicators = <<"Save Changes", "normal", "normal">>

====
